---------------------------- MODULE Spec2Model ----------------------------
(***************************************************************************)
(* A model of rustc_codegen_jvm: the JVM-bytecode backend (src/src/lib.rs) *)
(* and its packaging tool (src/java-linker/src/main.rs).                   *)
(*                                                                         *)
(* Strings and buffers are sequences of bytes (0..255), so that the class  *)
(* file the backend assembles can be read back byte by byte.               *)
(***************************************************************************)
EXTENDS Integers, Sequences, FiniteSets, TLC

(***************************************************************************)
(* Bounds of the model.                                                    *)
(***************************************************************************)
TyDepth == 1       \* nesting depth of Ref / RawPtr / Tuple types
MaxTupleLen == 1   \* fields of a tuple type
MaxCalls == 3      \* constant-pool add calls in one run of the pool harness
MaxFns == 2        \* functions of a compilation unit
MaxParams == 2     \* parameters of a function in the signature universe
MaxBlocks == 2     \* basic blocks of a function body
MaxStmts == 1      \* statements of a basic block

(***************************************************************************)
(* Program constants.                                                      *)
(***************************************************************************)
U8Mod == 256
U16Mod == 65536

TAG_Utf8 == 1
TAG_Class == 7
TAG_NameAndType == 12
TAG_Fieldref == 9
TAG_Methodref == 10

OP_iconst_m1 == 3
OP_iconst_5 == 8
OP_iload_0 == 26
OP_iload_1 == 27
OP_aload == 35
OP_iadd == 96
OP_isub == 100
OP_ireturn == 172
OP_areturn == 176
OP_return == 177

(***************************************************************************)
(* Byte-level helpers: to_be_bytes of u16 and u32, and slices.             *)
(***************************************************************************)
SeqUpTo(S, n) == UNION {[1..k -> S] : k \in 0..n}

u16_to_be_bytes(x) == <<(x \div U8Mod) % U8Mod, x % U8Mod>>

u32_to_be_bytes(x) ==
    <<(x \div (U8Mod * U8Mod * U8Mod)) % U8Mod, (x \div (U8Mod * U8Mod)) % U8Mod,
      (x \div U8Mod) % U8Mod, x % U8Mod>>

\* `as u16` of a usize
as_u16(x) == x % U16Mod

\* `as u32` of a usize: the identity below 2^32, which no length of the model
\* (nor any integer of TLC) reaches
as_u32(x) == x

\* the big-endian u16 / u32 stored at (1-based) position p of b
ReadU16(b, p) == b[p] * U8Mod + b[p + 1]

ReadU32(b, p) ==
    ((b[p] * U8Mod + b[p + 1]) * U8Mod + b[p + 2]) * U8Mod + b[p + 3]

\* dst[at+1 .. at+Len(src)].copy_from_slice(src), `at` a 0-based offset
copy_from_slice(dst, at, src) ==
    [i \in 1..Len(dst) |->
        IF i > at /\ i <= at + Len(src) THEN src[i - at] ELSE dst[i]]

(***************************************************************************)
(* String literals of the program, as bytes.                               *)
(***************************************************************************)
Str_main == <<109, 97, 105, 110>>  \* "main"
Str_add == <<97, 100, 100>>  \* "add"
Str_sub == <<115, 117, 98>>  \* "sub"
Str_demo == <<100, 101, 109, 111>>  \* "demo"
Str_java_lang_Object ==
    <<106, 97, 118, 97, 47, 108, 97, 110, 103, 47, 79, 98, 106, 101, 99, 116>>
Str_Code == <<67, 111, 100, 101>>  \* "Code"
\* "([Ljava/lang/String;)V"
Str_main_descriptor ==
    <<40, 91, 76, 106, 97, 118, 97, 47, 108, 97, 110, 103, 47, 83, 116, 114,
      105, 110, 103, 59, 41, 86>>
\* "Ljava/lang/String;"
Desc_String ==
    <<76, 106, 97, 118, 97, 47, 108, 97, 110, 103, 47, 83, 116, 114, 105,
      110, 103, 59>>
\* "Ljava/lang/Object;"
Desc_Object ==
    <<76, 106, 97, 118, 97, 47, 108, 97, 110, 103, 47, 79, 98, 106, 101,
      99, 116, 59>>
\* "Ljava/math/BigInteger;"
Desc_BigInteger ==
    <<76, 106, 97, 118, 97, 47, 109, 97, 116, 104, 47, 66, 105, 103, 73,
      110, 116, 101, 103, 101, 114, 59>>
Desc_Z == <<90>>
Desc_C == <<67>>
Desc_B == <<66>>
Desc_S == <<83>>
Desc_I == <<73>>
Desc_J == <<74>>
Desc_F == <<70>>
Desc_D == <<68>>
Desc_V == <<86>>
Chr_LParen == <<40>>
Chr_RParen == <<41>>

(***************************************************************************)
(* Source types (rustc_middle::ty::TyKind), as far as the Type Mapper      *)
(* tells them apart.  inner holds the pointee of a Ref / RawPtr and the    *)
(* fields of a Tuple.  "Adt" and "Array" stand for the kinds the match     *)
(* does not name.                                                          *)
(***************************************************************************)
IntTys == {"I8", "I16", "I32", "I64", "Isize", "I128"}
UintTys == {"U8", "U16", "U32", "U64", "Usize", "U128"}
FloatTys == {"F16", "F32", "F64", "F128"}

Ty(kind, arg, inner) == [kind |-> kind, arg |-> arg, inner |-> inner]

TyBool == Ty("Bool", "", <<>>)
TyChar == Ty("Char", "", <<>>)
TyInt(w) == Ty("Int", w, <<>>)
TyUint(w) == Ty("Uint", w, <<>>)
TyFloat(w) == Ty("Float", w, <<>>)
TyStr == Ty("Str", "", <<>>)
TyNever == Ty("Never", "", <<>>)
TyAdt == Ty("Adt", "", <<>>)
TyArray == Ty("Array", "", <<>>)
TyRef(t) == Ty("Ref", "", <<t>>)
TyRawPtr(t) == Ty("RawPtr", "", <<t>>)
TyTuple(fields) == Ty("Tuple", "", fields)
TyUnit == TyTuple(<<>>)

BaseTypes ==
    {TyBool, TyChar, TyStr, TyNever, TyAdt, TyArray}
      \cup {TyInt(w) : w \in IntTys}
      \cup {TyUint(w) : w \in UintTys}
      \cup {TyFloat(w) : w \in FloatTys}

RECURSIVE TypesOfDepth(_)
TypesOfDepth(d) ==
    IF d = 0 THEN BaseTypes
    ELSE LET I == TypesOfDepth(d - 1) IN
         I \cup {TyRef(t) : t \in I}
           \cup {TyRawPtr(t) : t \in I}
           \cup {TyTuple(s) : s \in SeqUpTo(I, MaxTupleLen)}

Types == TypesOfDepth(TyDepth)

(***************************************************************************)
(* Type Mapper.  The result is the descriptor, or the panic of line 308.   *)
(***************************************************************************)
Ok(s) == [panic |-> FALSE, val |-> s]
Panicked == [panic |-> TRUE, val |-> <<>>]

IntTyDescriptor(int_ty) ==
    CASE int_ty = "I8" -> Desc_B
      [] int_ty = "I16" -> Desc_S
      [] int_ty = "I32" -> Desc_I
      [] int_ty = "I64" -> Desc_J
      [] int_ty = "Isize" -> Desc_I
      [] int_ty = "I128" -> Desc_BigInteger

\* a variant that gives an unsigned integer the next wider JVM type
UintTyDescriptorWidened(uint_ty) ==
    CASE uint_ty = "U8" -> Desc_S
      [] uint_ty = "U16" -> Desc_I
      [] uint_ty = "U32" -> Desc_J
      [] uint_ty = "U64" -> Desc_BigInteger
      [] uint_ty = "Usize" -> Desc_J
      [] uint_ty = "U128" -> Desc_BigInteger

UintTyDescriptor(uint_ty) ==
    CASE uint_ty = "U8" -> Desc_B
      [] uint_ty = "U16" -> Desc_S
      [] uint_ty = "U32" -> Desc_I
      [] uint_ty = "U64" -> Desc_J
      [] uint_ty = "Usize" -> Desc_I
      [] uint_ty = "U128" -> Desc_BigInteger

FloatTyDescriptor(float_ty) ==
    CASE float_ty = "F32" -> Desc_F
      [] float_ty = "F64" -> Desc_D
      [] float_ty = "F16" -> Desc_F
      [] float_ty = "F128" -> Desc_D

\* a variant that rejects every raw pointer
RawPtrDescriptorRejectAll(ptr_ty) == Panicked

RawPtrDescriptor(ptr_ty) ==
    IF ptr_ty.kind = "Str" THEN Ok(Desc_String) ELSE Panicked

rust_ty_to_jvm_descriptor(rust_ty) ==
    CASE rust_ty.kind = "Bool" -> Ok(Desc_Z)
      [] rust_ty.kind = "Char" -> Ok(Desc_C)
      [] rust_ty.kind = "Int" -> Ok(IntTyDescriptor(rust_ty.arg))
      [] rust_ty.kind = "Uint" -> Ok(UintTyDescriptor(rust_ty.arg))
      [] rust_ty.kind = "Float" -> Ok(FloatTyDescriptor(rust_ty.arg))
      [] rust_ty.kind = "Ref" ->
            IF rust_ty.inner[1].kind = "Str" THEN Ok(Desc_String) ELSE Ok(Desc_Object)
      [] rust_ty.kind = "RawPtr" -> RawPtrDescriptor(rust_ty.inner[1])
      [] rust_ty.kind = "Str" -> Ok(Desc_String)
      [] rust_ty.kind = "Tuple" ->
            IF rust_ty.inner = <<>> THEN Ok(Desc_V) ELSE Ok(Desc_Object)
      [] rust_ty.kind = "Never" -> Ok(Desc_V)
      [] OTHER -> Ok(Desc_Object)

(***************************************************************************)
(* Constant Pool helper functions.  Each returns the pool, the count and   *)
(* the index it hands back.                                                *)
(***************************************************************************)
PoolResult(pool, count, index) == [pool |-> pool, count |-> count, index |-> index]

\* `*constant_pool_count += 1` on a u16
NextCount(constant_pool_count) == (constant_pool_count + 1) % U16Mod

\* a variant that hands back the previous entry when it already holds the text
add_utf8_constant_merging(constant_pool, constant_pool_count, text) ==
    LET entry == <<TAG_Utf8>> \o u16_to_be_bytes(as_u16(Len(text))) \o text
        n == Len(constant_pool)
    IN IF n >= Len(entry) /\ SubSeq(constant_pool, n - Len(entry) + 1, n) = entry
       THEN PoolResult(constant_pool, constant_pool_count, constant_pool_count - 1)
       ELSE PoolResult(constant_pool \o entry, NextCount(constant_pool_count),
                       constant_pool_count)

add_utf8_constant(constant_pool, constant_pool_count, text) ==
    PoolResult(constant_pool \o <<TAG_Utf8>> \o u16_to_be_bytes(as_u16(Len(text))) \o text,
               NextCount(constant_pool_count), constant_pool_count)

\* a variant that hands back the count read after the increment
add_class_constant_post_increment(constant_pool, constant_pool_count, name_index) ==
    PoolResult(constant_pool \o <<TAG_Class>> \o u16_to_be_bytes(name_index),
               NextCount(constant_pool_count), NextCount(constant_pool_count))

add_class_constant(constant_pool, constant_pool_count, name_index) ==
    PoolResult(constant_pool \o <<TAG_Class>> \o u16_to_be_bytes(name_index),
               NextCount(constant_pool_count), constant_pool_count)

add_name_and_type_constant(constant_pool, constant_pool_count, name_index, descriptor_index) ==
    PoolResult(constant_pool \o <<TAG_NameAndType>> \o u16_to_be_bytes(name_index)
                 \o u16_to_be_bytes(descriptor_index),
               NextCount(constant_pool_count), constant_pool_count)

\* a variant that hands back the count read after the increment
add_fieldref_constant_post_increment(constant_pool, constant_pool_count, class_index, name_and_type_index) ==
    PoolResult(constant_pool \o <<TAG_Fieldref>> \o u16_to_be_bytes(class_index)
                 \o u16_to_be_bytes(name_and_type_index),
               NextCount(constant_pool_count), NextCount(constant_pool_count))

add_fieldref_constant(constant_pool, constant_pool_count, class_index, name_and_type_index) ==
    PoolResult(constant_pool \o <<TAG_Fieldref>> \o u16_to_be_bytes(class_index)
                 \o u16_to_be_bytes(name_and_type_index),
               NextCount(constant_pool_count), constant_pool_count)

add_methodref_constant(constant_pool, constant_pool_count, class_index, name_and_type_index) ==
    PoolResult(constant_pool \o <<TAG_Methodref>> \o u16_to_be_bytes(class_index)
                 \o u16_to_be_bytes(name_and_type_index),
               NextCount(constant_pool_count), constant_pool_count)

(***************************************************************************)
(* MIR, as far as the visitor looks at it.  A statement is an assignment   *)
(* of an rvalue (a BinaryOp with its operator and operands, or another     *)
(* rvalue) or another statement kind; a terminator is its kind.            *)
(***************************************************************************)
BinOps == {"Add", "AddWithOverflow", "Sub", "SubWithOverflow", "Mul"}
OperandPairs == {<<"_1", "_2">>, <<"_2", "const 1">>}
TerminatorKinds == {"Return", "Goto", "Call", "Unreachable"}

Statement(kind, rvalue, bin_op, operands) ==
    [kind |-> kind, rvalue |-> rvalue, bin_op |-> bin_op, operands |-> operands]

StmtBinaryOp(bin_op, operands) == Statement("Assign", "BinaryOp", bin_op, operands)
StmtUse == Statement("Assign", "Use", "", <<>>)
StmtStorageLive == Statement("StorageLive", "", "", <<>>)

AllStatements ==
    {StmtBinaryOp(o, p) : o \in BinOps, p \in OperandPairs} \cup {StmtUse, StmtStorageLive}

BasicBlockData(statements, terminator) ==
    [statements |-> statements, terminator |-> terminator]

\* an item of the crate: a function with its signature and MIR body, or another item
FnItem(name, inputs, output, blocks) ==
    [kind |-> "Fn", name |-> name, inputs |-> inputs, output |-> output, blocks |-> blocks]

OtherItem(name) ==
    [kind |-> "Struct", name |-> name, inputs |-> <<>>, output |-> TyUnit, blocks |-> <<>>]

(***************************************************************************)
(* MirToBytecodeVisitor: what visit_statement and visit_terminator append  *)
(* to method_bytecode_instructions.                                        *)
(***************************************************************************)
BinaryOpBytecode(bin_op) ==
    CASE bin_op \in {"Add", "AddWithOverflow"} -> <<OP_iload_0, OP_iload_1, OP_iadd>>
      [] bin_op \in {"Sub", "SubWithOverflow"} -> <<OP_iload_0, OP_iload_1, OP_isub>>
      [] OTHER -> <<>>

\* a variant that loads what the operands name: _1 from slot 0, _2 from slot 1, a
\* constant by iconst_1
visit_statement_by_operands(instructions, statement) ==
    LET Load(operand) == IF operand = "_1" THEN OP_iload_0
                         ELSE IF operand = "_2" THEN OP_iload_1
                         ELSE 4
        bytes == BinaryOpBytecode(statement.bin_op)
    IN IF statement.kind = "Assign" /\ statement.rvalue = "BinaryOp" /\ bytes # <<>>
       THEN instructions \o <<Load(statement.operands[1]), Load(statement.operands[2]),
                              bytes[3]>>
       ELSE instructions

visit_statement(instructions, statement) ==
    IF statement.kind = "Assign" /\ statement.rvalue = "BinaryOp"
    THEN instructions \o BinaryOpBytecode(statement.bin_op)
    ELSE instructions

ReturnOpcode(jvm_return_descriptor) ==
    CASE jvm_return_descriptor = Desc_V -> OP_return
      [] jvm_return_descriptor \in {Desc_I, Desc_F, Desc_Z, Desc_B, Desc_C, Desc_S} -> OP_ireturn
      [] jvm_return_descriptor \in {Desc_String, Desc_Object} -> OP_areturn
      [] OTHER -> OP_return

\* a variant that asks the Type Mapper before it looks at the terminator's kind
visit_terminator_descriptor_first(instructions, terminator, return_ty) ==
    LET jvm_return_descriptor == rust_ty_to_jvm_descriptor(return_ty) IN
    IF jvm_return_descriptor.panic THEN Panicked
    ELSE IF terminator = "Return"
    THEN Ok(Append(instructions, ReturnOpcode(jvm_return_descriptor.val)))
    ELSE Ok(instructions)

\* the instructions after the terminator, or the Type Mapper's panic
visit_terminator(instructions, terminator, return_ty) ==
    IF terminator = "Return"
    THEN LET jvm_return_descriptor == rust_ty_to_jvm_descriptor(return_ty) IN
         IF jvm_return_descriptor.panic THEN Panicked
         ELSE Ok(Append(instructions, ReturnOpcode(jvm_return_descriptor.val)))
    ELSE Ok(instructions)

(***************************************************************************)
(* FxIndexMap: an insertion-ordered map, a sequence of (key, value).       *)
(* insert of a present key replaces its value in place.                    *)
(***************************************************************************)
IndexMapHas(map, key) == \E i \in 1..Len(map) : map[i].key = key

IndexMapPos(map, key) == CHOOSE i \in 1..Len(map) : map[i].key = key

\* a lookup that ignores the key
IndexMapGetFirst(map, key) == map[1].value

IndexMapGet(map, key) == map[IndexMapPos(map, key)].value

IndexMapInsert(map, key, value) ==
    IF IndexMapHas(map, key)
    THEN [map EXCEPT ![IndexMapPos(map, key)] = [key |-> key, value |-> value]]
    ELSE Append(map, [key |-> key, value |-> value])

(***************************************************************************)
(* find_instance_by_name: the first function item of that name.            *)
(***************************************************************************)
InstanceFound(free_items, function_name) ==
    \E i \in 1..Len(free_items) :
        free_items[i].kind = "Fn" /\ free_items[i].name = function_name

find_instance_by_name(free_items, function_name) ==
    LET hits == {i \in 1..Len(free_items) :
                    free_items[i].kind = "Fn" /\ free_items[i].name = function_name}
        first == CHOOSE i \in hits : \A j \in hits : i <= j
    IN free_items[first]

(***************************************************************************)
(* calculate_max_stack_size                                                *)
(***************************************************************************)
IsPush(opcode) ==
    \/ OP_iconst_m1 <= opcode /\ opcode <= OP_iconst_5
    \/ OP_iload_0 <= opcode /\ opcode <= OP_aload

\* a variant in which the void return pops as well
PopsOneAnyReturn(opcode) == opcode \in {OP_iadd, OP_isub, OP_ireturn, OP_areturn, OP_return}

PopsOne(opcode) == opcode \in {OP_iadd, OP_isub, OP_ireturn, OP_areturn}

RECURSIVE MaxStackLoop(_, _, _, _)
MaxStackLoop(instructions, instruction_pointer, stack_depth, max_stack_depth) ==
    IF instruction_pointer > Len(instructions)
    THEN as_u16(IF max_stack_depth > 0 THEN max_stack_depth ELSE 0)
    ELSE LET opcode == instructions[instruction_pointer]
             stack_effect == IF IsPush(opcode) THEN 1 ELSE 0
             depth == (IF PopsOne(opcode) THEN stack_depth - 1 ELSE stack_depth) + stack_effect
         IN MaxStackLoop(instructions, instruction_pointer + 1,
                         IF depth < 0 THEN 0 ELSE depth,
                         IF depth > max_stack_depth THEN depth ELSE max_stack_depth)

calculate_max_stack_size(instructions) == MaxStackLoop(instructions, 1, 0, 0)

(***************************************************************************)
(* generate_class_with_static_methods_bytecode, step by step.              *)
(***************************************************************************)
Magic == <<202, 254, 186, 190>>     \* CA FE BA BE
VersionMajorFirst == <<0, 52, 0, 0>> \* a variant with the two version fields swapped
Version == <<0, 0, 0, 52>>          \* minor 0, major 52
ClassAccessFlags == <<0, 33>>       \* public, ACC_SUPER
MethodAccessFlags == <<0, 9>>       \* ACC_PUBLIC, ACC_STATIC

\* the descriptors of the arguments from position i on, or the first panic
RECURSIVE ArgDescriptors(_, _)
ArgDescriptors(inputs, i) ==
    IF i > Len(inputs) THEN Ok(<<>>)
    ELSE LET d == rust_ty_to_jvm_descriptor(inputs[i]) IN
         IF d.panic THEN Panicked
         ELSE LET rest == ArgDescriptors(inputs, i + 1) IN
              IF rest.panic THEN Panicked ELSE Ok(d.val \o rest.val)

\* a variant that looks at the name only
IsMainAnyArgs(function_name, fn_sig) == function_name = Str_main

IsMainNoArgs(function_name, fn_sig) == function_name = Str_main /\ fn_sig.inputs = <<>>

method_descriptor(function_name, fn_sig) ==
    IF IsMainNoArgs(function_name, fn_sig) THEN Ok(Str_main_descriptor)
    ELSE LET args == ArgDescriptors(fn_sig.inputs, 1) IN
         IF args.panic THEN Panicked
         ELSE LET output == rust_ty_to_jvm_descriptor(fn_sig.output) IN
              IF output.panic THEN Panicked
              ELSE Ok(Chr_LParen \o args.val \o Chr_RParen \o output.val)

\* a variant without the extra slot
MaxLocalsNoExtraSlot(fn_sig) == as_u16(Len(fn_sig.inputs))

MaxLocals(fn_sig) == (as_u16(Len(fn_sig.inputs)) + 1) % U16Mod

\* a variant that patches the four bytes before the placeholder
AttributeLengthOffsetBeforePlaceholder(buffer) == Len(buffer) - 8

\* 0-based offset of the attribute_length placeholder, the last four bytes written
AttributeLengthOffset(buffer) == Len(buffer) - 4

\* the Code attribute body of a method: max_stack, max_locals, code_length, code,
\* exception table length, attributes count
code_attribute_bytecode(instructions, fn_sig) ==
    LET head == u16_to_be_bytes(calculate_max_stack_size(instructions))
                  \o u16_to_be_bytes(MaxLocals(fn_sig))
        code_length_placeholder_index == Len(head)
        with_placeholder == head \o <<0, 0, 0, 0>>
        patched == copy_from_slice(with_placeholder, code_length_placeholder_index,
                                   u32_to_be_bytes(as_u32(Len(instructions))))
    IN patched \o instructions \o <<0, 0>> \o <<0, 0>>

\* one iteration of the method-definition loop (lines 577-630)
method_definition(buffer, indices, code_name_index, instructions, fn_sig) ==
    LET header == buffer \o MethodAccessFlags \o u16_to_be_bytes(indices[1])
                    \o u16_to_be_bytes(indices[2]) \o <<0, 1>>
                    \o u16_to_be_bytes(code_name_index) \o <<0, 0, 0, 0>>
        code_attribute == code_attribute_bytecode(instructions, fn_sig)
        patched == copy_from_slice(header, AttributeLengthOffset(header),
                                   u32_to_be_bytes(as_u32(Len(code_attribute))))
    IN patched \o code_attribute

(***************************************************************************)
(* The inputs: crates (the free items of a compilation unit).              *)
(***************************************************************************)
TyI32 == TyInt("I32")

CoreStatements ==
    {StmtBinaryOp("Add", <<"_1", "_2">>), StmtBinaryOp("Sub", <<"_1", "_2">>), StmtStorageLive}

Blocks(statements, terminators) ==
    {BasicBlockData(s, t) : s \in SeqUpTo(statements, MaxStmts), t \in terminators}

Bodies(statements, terminators) ==
    UNION {[1..n -> Blocks(statements, terminators)] : n \in 1..MaxBlocks}

\* bodies of every shape up to the bounds, over the core statements
FnsRich ==
    {FnItem(Str_add, <<TyI32, TyI32>>, out, b) :
        out \in {TyI32, TyUnit}, b \in Bodies(CoreStatements, {"Return", "Goto"})}

\* one block with one statement: every statement and terminator kind
FnsKinds ==
    {FnItem(Str_add, <<TyI32, TyI32>>, TyI32, <<BasicBlockData(<<s>>, t)>>) :
        s \in AllStatements, t \in TerminatorKinds}

\* every return type, with and without a Return terminator
FnsRet ==
    {FnItem(n, i, out, <<BasicBlockData(<<StmtBinaryOp("Add", <<"_1", "_2">>)>>, t)>>) :
        n \in {Str_main, Str_add}, i \in {<<>>, <<TyI32, TyI32>>},
        out \in TypesOfDepth(1), t \in {"Return", "Goto"}}

\* every parameter list up to the bound
ParamTypes == {TyI32, TyInt("I64"), TyBool, TyRef(TyStr), TyRawPtr(TyI32)}

FnsSig ==
    {FnItem(n, i, out, <<BasicBlockData(<<>>, "Return")>>) :
        n \in {Str_main, Str_add}, i \in SeqUpTo(ParamTypes, MaxParams),
        out \in {TyUnit, TyI32}}

\* the items of the crates of several items
ItemsSmall ==
    {FnItem(Str_main, <<>>, TyUnit, <<BasicBlockData(<<>>, "Return")>>),
     FnItem(Str_main, <<TyRef(TyStr)>>, TyI32,
            <<BasicBlockData(<<StmtBinaryOp("Sub", <<"_1", "_2">>)>>, "Return")>>),
     FnItem(Str_add, <<TyI32, TyI32>>, TyI32,
            <<BasicBlockData(<<StmtBinaryOp("Add", <<"_1", "_2">>)>>, "Return")>>),
     FnItem(Str_add, <<TyI32>>, TyUnit,
            <<BasicBlockData(<<>>, "Goto"), BasicBlockData(<<>>, "Return")>>),
     FnItem(Str_sub, <<TyI32, TyI32>>, TyInt("I64"),
            <<BasicBlockData(<<StmtBinaryOp("SubWithOverflow", <<"_1", "_2">>),
                               StmtBinaryOp("Add", <<"_1", "_2">>)>>, "Return")>>),
     FnItem(Str_sub, <<TyRawPtr(TyI32)>>, TyUnit, <<BasicBlockData(<<>>, "Return")>>),
     OtherItem(Str_add)}

\* function names are unique within a compilation unit
DistinctFnNames(free_items) ==
    \A i, j \in 1..Len(free_items) :
        (i # j /\ free_items[i].kind = "Fn" /\ free_items[j].kind = "Fn")
            => free_items[i].name # free_items[j].name

Crates ==
    {<<f>> : f \in FnsRich \cup FnsKinds \cup FnsRet \cup FnsSig}
      \cup {c \in SeqUpTo(ItemsSmall, MaxFns) : DistinctFnNames(c)}

CrateNames == {Str_demo, Str_main}

(***************************************************************************)
(* State.                                                                  *)
(***************************************************************************)
VARIABLES
    pc,                             \* where the run stands
    crate_name, free_items,         \* the compilation unit
    item_index,                     \* codegen_crate: position in free_items
    block, statement_index,         \* the visitor's position in the body
    method_bytecode_instructions,   \* the visitor's buffer
    function_bytecodes,             \* FxIndexMap name -> instructions
    bytecode,                       \* the class file buffer
    constant_pool, constant_pool_count,
    class_name_index, basic_class_index,
    object_class_name_index, object_class_index,
    code_attribute_name_index,
    method_constant_pool_indices,   \* FxIndexMap name -> (name, descriptor, name-and-type)
    method_index,                   \* generate: position in function_bytecodes
    class_file,                     \* the files written by join_codegen, in order
    type_mapper,                    \* harness: one call of the Type Mapper
    pool_calls,                     \* harness: the add calls made and what each returned
    max_stack_call,                 \* harness: one call of calculate_max_stack_size
    args, files,                    \* java-linker: the command line, the file system
    arg_index, input_files, output_file,
    main_classes, main_class_name,
    jar, jar_index,                 \* java-linker: the archive, create_jar's position
    exit_code                       \* java-linker: what main returned

visitor_vars == <<block, statement_index, method_bytecode_instructions>>

pool_vars == <<constant_pool, constant_pool_count>>

index_vars ==
    <<class_name_index, basic_class_index, object_class_name_index, object_class_index,
      code_attribute_name_index>>

generate_vars == <<bytecode, pool_vars, index_vars, method_constant_pool_indices, method_index>>

input_vars == <<crate_name, free_items>>

linker_vars ==
    <<args, files, arg_index, input_files, output_file, main_classes, main_class_name,
      jar, jar_index, exit_code>>

harness_vars == <<type_mapper, pool_calls, max_stack_call, linker_vars>>

vars ==
    <<pc, input_vars, item_index, visitor_vars, function_bytecodes, generate_vars,
      class_file, harness_vars>>

TypeMapperIdle == [called |-> FALSE, rust_ty |-> TyUnit, result |-> Ok(<<>>)]

MaxStackIdle == [called |-> FALSE, instructions |-> <<>>, result |-> 0]

None == [some |-> FALSE, val |-> <<>>]
Some(v) == [some |-> TRUE, val |-> v]

NoJar == [created |-> FALSE, entries |-> <<>>, finished |-> FALSE]

\* the java-linker before main has done anything (lines 17-20)
LinkerFresh ==
    /\ arg_index = 1
    /\ input_files = <<>>
    /\ output_file = None
    /\ main_classes = <<>>
    /\ main_class_name = None
    /\ jar = NoJar
    /\ jar_index = 1
    /\ exit_code = "running"

\* the java-linker is not part of the run
LinkerIdle ==
    /\ args = <<>>
    /\ files = <<>>
    /\ LinkerFresh

\* everything but pc, the inputs and the harness variables, before the run starts
Fresh ==
    /\ item_index = 1
    /\ block = 1
    /\ statement_index = 1
    /\ method_bytecode_instructions = <<>>
    /\ function_bytecodes = <<>>
    /\ bytecode = <<>>
    /\ constant_pool = <<>>
    /\ constant_pool_count = 1
    /\ class_name_index = 0
    /\ basic_class_index = 0
    /\ object_class_name_index = 0
    /\ object_class_index = 0
    /\ code_attribute_name_index = 0
    /\ method_constant_pool_indices = <<>>
    /\ method_index = 1
    /\ class_file = <<>>

Init ==
    /\ pc = "codegen_crate"
    /\ crate_name \in CrateNames
    /\ free_items \in Crates
    /\ Fresh
    /\ type_mapper = TypeMapperIdle
    /\ pool_calls = <<>>
    /\ max_stack_call = MaxStackIdle
    /\ LinkerIdle

(***************************************************************************)
(* codegen_crate: the loop over the free items, and the visitor's walk.    *)
(***************************************************************************)
CurrentItem == free_items[item_index]

CurrentBlock == CurrentItem.blocks[block]

\* an item that is not a function is passed over (line 62)
SkipItem ==
    /\ pc = "codegen_crate"
    /\ item_index <= Len(free_items)
    /\ CurrentItem.kind # "Fn"
    /\ item_index' = item_index + 1
    /\ UNCHANGED <<pc, input_vars, visitor_vars, function_bytecodes, generate_vars,
                   class_file, harness_vars>>

\* a function: a new visitor with an empty buffer enters the body (lines 71-84)
VisitBody ==
    /\ pc = "codegen_crate"
    /\ item_index <= Len(free_items)
    /\ CurrentItem.kind = "Fn"
    /\ method_bytecode_instructions' = <<>>
    /\ block' = 1
    /\ statement_index' = 1
    /\ pc' = "visit_body"
    /\ UNCHANGED <<input_vars, item_index, function_bytecodes, generate_vars,
                   class_file, harness_vars>>

VisitBasicBlockData ==
    /\ pc = "visit_body"
    /\ block <= Len(CurrentItem.blocks)
    /\ statement_index' = 1
    /\ pc' = "visit_block"
    /\ UNCHANGED <<input_vars, item_index, block, method_bytecode_instructions,
                   function_bytecodes, generate_vars, class_file, harness_vars>>

VisitStatement ==
    /\ pc = "visit_block"
    /\ statement_index <= Len(CurrentBlock.statements)
    /\ method_bytecode_instructions' =
         visit_statement(method_bytecode_instructions,
                         CurrentBlock.statements[statement_index])
    /\ statement_index' = statement_index + 1
    /\ UNCHANGED <<pc, input_vars, item_index, block, function_bytecodes, generate_vars,
                   class_file, harness_vars>>

VisitTerminator ==
    /\ pc = "visit_block"
    /\ statement_index > Len(CurrentBlock.statements)
    /\ LET r == visit_terminator(method_bytecode_instructions, CurrentBlock.terminator,
                                 CurrentItem.output)
       IN IF r.panic
          THEN /\ pc' = "panic_visit_terminator"
               /\ UNCHANGED <<block, method_bytecode_instructions>>
          ELSE /\ pc' = "visit_body"
               /\ block' = block + 1
               /\ method_bytecode_instructions' = r.val
    /\ UNCHANGED <<input_vars, item_index, statement_index, function_bytecodes,
                   generate_vars, class_file, harness_vars>>

\* after the last block: the bytecode is stored under the function's name (line 88)
FinishBody ==
    /\ pc = "visit_body"
    /\ block > Len(CurrentItem.blocks)
    /\ function_bytecodes' =
         IndexMapInsert(function_bytecodes, CurrentItem.name, method_bytecode_instructions)
    /\ item_index' = item_index + 1
    /\ pc' = "codegen_crate"
    /\ UNCHANGED <<input_vars, visitor_vars, generate_vars, class_file, harness_vars>>

(***************************************************************************)
(* generate_class_with_static_methods_bytecode, called once every item has *)
(* been visited (line 94).                                                 *)
(***************************************************************************)
\* magic, version, and the class and superclass entries (lines 473-505)
GenerateBegin ==
    /\ pc = "codegen_crate"
    /\ item_index > Len(free_items)
    /\ LET r1 == add_utf8_constant(<<>>, 1, crate_name)
           r2 == add_class_constant(r1.pool, r1.count, r1.index)
           r3 == add_utf8_constant(r2.pool, r2.count, Str_java_lang_Object)
           r4 == add_class_constant(r3.pool, r3.count, r3.index)
       IN /\ bytecode' = Magic \o Version
          /\ class_name_index' = r1.index
          /\ basic_class_index' = r2.index
          /\ object_class_name_index' = r3.index
          /\ object_class_index' = r4.index
          /\ constant_pool' = r4.pool
          /\ constant_pool_count' = r4.count
    /\ method_constant_pool_indices' = <<>>
    /\ method_index' = 1
    /\ pc' = "method_constants"
    /\ UNCHANGED <<input_vars, item_index, visitor_vars, function_bytecodes,
                   code_attribute_name_index, class_file, harness_vars>>

\* the name, descriptor and NameAndType entries of one function (lines 507-557)
MethodConstants ==
    /\ pc = "method_constants"
    /\ method_index <= Len(function_bytecodes)
    /\ LET function_name == function_bytecodes[method_index].key
           r1 == add_utf8_constant(constant_pool, constant_pool_count, function_name)
           fn_sig == find_instance_by_name(free_items, function_name)
           descriptor == method_descriptor(function_name, fn_sig)
           r2 == add_utf8_constant(r1.pool, r1.count, descriptor.val)
           r3 == add_name_and_type_constant(r2.pool, r2.count, r1.index, r2.index)
       IN IF ~InstanceFound(free_items, function_name)
          THEN /\ pc' = "panic_instance_not_found"
               /\ constant_pool' = r1.pool
               /\ constant_pool_count' = r1.count
               /\ UNCHANGED <<method_constant_pool_indices, method_index>>
          ELSE IF descriptor.panic
          THEN /\ pc' = "panic_generate"
               /\ constant_pool' = r1.pool
               /\ constant_pool_count' = r1.count
               /\ UNCHANGED <<method_constant_pool_indices, method_index>>
          ELSE /\ pc' = pc
               /\ constant_pool' = r3.pool
               /\ constant_pool_count' = r3.count
               /\ method_constant_pool_indices' =
                    IndexMapInsert(method_constant_pool_indices, function_name,
                                   <<r1.index, r2.index, r3.index>>)
               /\ method_index' = method_index + 1
    /\ UNCHANGED <<input_vars, item_index, visitor_vars, function_bytecodes, bytecode,
                   index_vars, class_file, harness_vars>>

\* the "Code" entry, then the pool and the class-level fields are written (lines 559-574)
SerializePool ==
    /\ pc = "method_constants"
    /\ method_index > Len(function_bytecodes)
    /\ LET r == add_utf8_constant(constant_pool, constant_pool_count, Str_Code)
       IN /\ code_attribute_name_index' = r.index
          /\ constant_pool' = r.pool
          /\ constant_pool_count' = r.count
          /\ bytecode' = bytecode \o u16_to_be_bytes(r.count) \o r.pool
                           \o ClassAccessFlags
                           \o u16_to_be_bytes(basic_class_index)
                           \o u16_to_be_bytes(object_class_index)
                           \o <<0, 0>> \o <<0, 0>>
                           \o u16_to_be_bytes(as_u16(Len(function_bytecodes)))
    /\ method_index' = 1
    /\ pc' = "method_definitions"
    /\ UNCHANGED <<input_vars, item_index, visitor_vars, function_bytecodes,
                   class_name_index, basic_class_index, object_class_name_index,
                   object_class_index, method_constant_pool_indices, class_file,
                   harness_vars>>

\* one method record with its Code attribute (lines 577-630)
MethodDefinition ==
    /\ pc = "method_definitions"
    /\ method_index <= Len(function_bytecodes)
    /\ LET function_name == function_bytecodes[method_index].key
           instructions == function_bytecodes[method_index].value
       IN bytecode' =
            method_definition(bytecode,
                              IndexMapGet(method_constant_pool_indices, function_name),
                              code_attribute_name_index, instructions,
                              find_instance_by_name(free_items, function_name))
    /\ method_index' = method_index + 1
    /\ UNCHANGED <<pc, input_vars, item_index, visitor_vars, function_bytecodes, pool_vars,
                   index_vars, method_constant_pool_indices, class_file, harness_vars>>

\* the class attributes count; the buffer is returned to codegen_crate (lines 632-635, 100)
GenerateEnd ==
    /\ pc = "method_definitions"
    /\ method_index > Len(function_bytecodes)
    /\ bytecode' = bytecode \o <<0, 0>>
    /\ pc' = "codegen_done"
    /\ UNCHANGED <<input_vars, item_index, visitor_vars, function_bytecodes, pool_vars,
                   index_vars, method_constant_pool_indices, method_index, class_file,
                   harness_vars>>

\* the file written from a buffer that still lacks the class attributes count
JoinCodegenBeforeEnd ==
    /\ pc = "method_definitions"
    /\ method_index > Len(function_bytecodes)
    /\ class_file' = Append(class_file, bytecode)
    /\ pc' = "joined"
    /\ UNCHANGED <<input_vars, item_index, visitor_vars, function_bytecodes, generate_vars,
                   harness_vars>>

\* join_codegen: the class file is created and the buffer written to it (lines 115-125)
JoinCodegen ==
    /\ pc = "codegen_done"
    /\ class_file' = Append(class_file, bytecode)
    /\ pc' = "joined"
    /\ UNCHANGED <<input_vars, item_index, visitor_vars, function_bytecodes, generate_vars,
                   harness_vars>>

Next ==
    \/ SkipItem
    \/ VisitBody
    \/ VisitBasicBlockData
    \/ VisitStatement
    \/ VisitTerminator
    \/ FinishBody
    \/ GenerateBegin
    \/ MethodConstants
    \/ SerializePool
    \/ MethodDefinition
    \/ GenerateEnd
    \/ JoinCodegen

Spec == Init /\ [][Next]_vars

(***************************************************************************)
(* The Type Mapper on its own: one call on a type of the bounded universe. *)
(***************************************************************************)
InitTypeMapper ==
    /\ pc = "type_mapper"
    /\ crate_name = Str_demo
    /\ free_items = <<>>
    /\ Fresh
    /\ type_mapper \in {[called |-> FALSE, rust_ty |-> t, result |-> Ok(<<>>)] : t \in Types}
    /\ pool_calls = <<>>
    /\ max_stack_call = MaxStackIdle
    /\ LinkerIdle

CallTypeMapper ==
    /\ pc = "type_mapper"
    /\ ~type_mapper.called
    /\ type_mapper' = [type_mapper EXCEPT !.called = TRUE,
                          !.result = rust_ty_to_jvm_descriptor(type_mapper.rust_ty)]
    /\ UNCHANGED <<pc, input_vars, item_index, visitor_vars, function_bytecodes,
                   generate_vars, class_file, pool_calls, max_stack_call, linker_vars>>

NextTypeMapper == CallTypeMapper

SpecTypeMapper == InitTypeMapper /\ [][NextTypeMapper]_vars

(***************************************************************************)
(* calculate_max_stack_size on its own: one call on an instruction         *)
(* sequence of the bounded universe.                                       *)
(***************************************************************************)
MaxCode == 4

\* nop, a constant, the loads and the arithmetic the translator emits, the returns
InstructionBytes ==
    {0, OP_iconst_m1, OP_iload_0, OP_iload_1, OP_iadd, OP_isub, OP_ireturn, OP_areturn,
     OP_return}

InitMaxStack ==
    /\ pc = "max_stack"
    /\ crate_name = Str_demo
    /\ free_items = <<>>
    /\ Fresh
    /\ type_mapper = TypeMapperIdle
    /\ pool_calls = <<>>
    /\ max_stack_call \in {[called |-> FALSE, instructions |-> i, result |-> 0] :
                             i \in SeqUpTo(InstructionBytes, MaxCode)}
    /\ LinkerIdle

CallMaxStack ==
    /\ pc = "max_stack"
    /\ ~max_stack_call.called
    /\ max_stack_call' = [max_stack_call EXCEPT !.called = TRUE,
                             !.result = calculate_max_stack_size(max_stack_call.instructions)]
    /\ UNCHANGED <<pc, input_vars, item_index, visitor_vars, function_bytecodes,
                   generate_vars, class_file, type_mapper, pool_calls, linker_vars>>

NextMaxStack == CallMaxStack

SpecMaxStack == InitMaxStack /\ [][NextMaxStack]_vars

(***************************************************************************)
(* The Constant Pool helper functions on their own: any sequence of calls  *)
(* on a pool that starts empty with a count of 1 (lines 480-481).          *)
(***************************************************************************)
PoolTexts == {Str_add, Str_Code}
PoolIndexArgs == {1, 2}

PoolCall(op, text, a, b, index) ==
    [op |-> op, text |-> text, a |-> a, b |-> b, index |-> index]

InitPool ==
    /\ pc = "pool"
    /\ crate_name = Str_demo
    /\ free_items = <<>>
    /\ Fresh
    /\ type_mapper = TypeMapperIdle
    /\ pool_calls = <<>>
    /\ max_stack_call = MaxStackIdle
    /\ LinkerIdle

\* the call returned r: the pool and the count are the caller's, updated in place
PoolReturn(r, call) ==
    /\ pc = "pool"
    /\ Len(pool_calls) < MaxCalls
    /\ constant_pool' = r.pool
    /\ constant_pool_count' = r.count
    /\ pool_calls' = Append(pool_calls, [call EXCEPT !.index = r.index])
    /\ UNCHANGED <<pc, input_vars, item_index, visitor_vars, function_bytecodes, bytecode,
                   index_vars, method_constant_pool_indices, method_index, class_file,
                   type_mapper, max_stack_call, linker_vars>>

CallAddUtf8 ==
    \E text \in PoolTexts :
        PoolReturn(add_utf8_constant(constant_pool, constant_pool_count, text),
                   PoolCall("utf8", text, 0, 0, 0))

CallAddClass ==
    \E name_index \in PoolIndexArgs :
        PoolReturn(add_class_constant(constant_pool, constant_pool_count, name_index),
                   PoolCall("class", <<>>, name_index, 0, 0))

CallAddNameAndType ==
    \E name_index \in PoolIndexArgs, descriptor_index \in PoolIndexArgs :
        PoolReturn(add_name_and_type_constant(constant_pool, constant_pool_count,
                                              name_index, descriptor_index),
                   PoolCall("name_and_type", <<>>, name_index, descriptor_index, 0))

CallAddFieldref ==
    \E class_index \in PoolIndexArgs, name_and_type_index \in PoolIndexArgs :
        PoolReturn(add_fieldref_constant(constant_pool, constant_pool_count,
                                         class_index, name_and_type_index),
                   PoolCall("fieldref", <<>>, class_index, name_and_type_index, 0))

CallAddMethodref ==
    \E class_index \in PoolIndexArgs, name_and_type_index \in PoolIndexArgs :
        PoolReturn(add_methodref_constant(constant_pool, constant_pool_count,
                                          class_index, name_and_type_index),
                   PoolCall("methodref", <<>>, class_index, name_and_type_index, 0))

NextPool ==
    \/ CallAddUtf8
    \/ CallAddClass
    \/ CallAddNameAndType
    \/ CallAddFieldref
    \/ CallAddMethodref

SpecPool == InitPool /\ [][NextPool]_vars

(***************************************************************************)
(* java-linker (src/java-linker/src/main.rs): the packaging tool.  Strings *)
(* and file contents are sequences of bytes.                               *)
(***************************************************************************)
MaxArgs == 3

\* "java-linker", "-o", "-Wl", "-Wl,-z", "-no-pie", "-nodefaultlibs"
Arg_program == <<106, 97, 118, 97, 45, 108, 105, 110, 107, 101, 114>>
Arg_o == <<45, 111>>
Arg_Wl_prefix == <<45, 87, 108>>
Arg_Wl_z == <<45, 87, 108, 44, 45, 122>>
Arg_no_pie == <<45, 110, 111, 45, 112, 105, 101>>
Arg_nodefaultlibs == <<45, 110, 111, 100, 101, 102, 97, 117, 108, 116, 108, 105, 98, 115>>

\* "d/m-1f.class", "b.class", "o.jar"
Path_main_class == <<100, 47, 109, 45, 49, 102, 46, 99, 108, 97, 115, 115>>
Path_lib_class == <<98, 46, 99, 108, 97, 115, 115>>
Path_jar == <<111, 46, 106, 97, 114>>

\* ".class", "META-INF/MANIFEST.MF"
Str_dot_class == <<46, 99, 108, 97, 115, 115>>
Str_manifest_path == <<77, 69, 84, 65, 45, 73, 78, 70, 47, 77, 65, 78, 73, 70, 69, 83, 84, 46, 77, 70>>

\* "Manifest-Version: 1.0\r\n", "Created-By: java-linker-rs\r\n", "Main-Class: ", "\r\n"
Str_manifest_version == <<77, 97, 110, 105, 102, 101, 115, 116, 45, 86, 101, 114, 115, 105, 111, 110, 58, 32, 49, 46, 48, 13, 10>>
Str_created_by == <<67, 114, 101, 97, 116, 101, 100, 45, 66, 121, 58, 32, 106, 97, 118, 97, 45, 108, 105, 110, 107, 101, 114, 45, 114, 115, 13, 10>>
Str_main_class == <<77, 97, 105, 110, 45, 67, 108, 97, 115, 115, 58, 32>>
Str_CRLF == <<13, 10>>

starts_with(s, prefix) ==
    Len(s) >= Len(prefix) /\ SubSeq(s, 1, Len(prefix)) = prefix

ends_with(s, suffix) ==
    Len(s) >= Len(suffix) /\ SubSeq(s, Len(s) - Len(suffix) + 1, Len(s)) = suffix

\* data.windows(n).any(|w| w == pattern)
windows_any(data, pattern) ==
    \E i \in 1..(Len(data) - Len(pattern) + 1) :
        SubSeq(data, i, i + Len(pattern) - 1) = pattern

\* Path::file_name: the component after the last '/'
file_name(path) ==
    LET slashes == {i \in 1..Len(path) : path[i] = 47}
        last == IF slashes = {} THEN 0 ELSE CHOOSE i \in slashes : \A j \in slashes : j <= i
    IN SubSeq(path, last + 1, Len(path))

\* the regex ^(.*?)-[0-9a-f]+(\.class)$ applied to a file name: group 1 + group 2 when
\* it matches (group 1 is the shortest prefix that lets the rest match), the name itself
\* when it does not
sanitize_file_name(name) ==
    LET n == Len(name)
        IsHexDigit(c) == c \in 48..57 \/ c \in 97..102
        dashes == {k \in 1..(n - 7) :
                      /\ name[k] = 45
                      /\ \A j \in (k + 1)..(n - 6) : IsHexDigit(name[j])}
        first == CHOOSE k \in dashes : \A j \in dashes : k <= j
    IN IF ends_with(name, Str_dot_class) /\ dashes # {}
       THEN SubSeq(name, 1, first - 1) \o Str_dot_class
       ELSE name

RECURSIVE trim_end_matches(_, _)
trim_end_matches(s, suffix) ==
    IF ends_with(s, suffix)
    THEN trim_end_matches(SubSeq(s, 1, Len(s) - Len(suffix)), suffix)
    ELSE s

\* the closure of lines 61-75; the last step is replace("/", ".")
main_class_name_of(class_path) ==
    LET cleaned_name == sanitize_file_name(file_name(class_path))
        trimmed == trim_end_matches(cleaned_name, Str_dot_class)
    IN [i \in 1..Len(trimmed) |-> IF trimmed[i] = 47 THEN 46 ELSE trimmed[i]]

\* a candidate is counted at the first file only
find_main_classes_first_only(fs, class_files) ==
    IF class_files # <<>>
         /\ fs[class_files[1]].exists
         /\ windows_any(fs[class_files[1]].data, Str_main)
         /\ windows_any(fs[class_files[1]].data, Str_main_descriptor)
    THEN <<class_files[1]>>
    ELSE <<>>

\* the files that can be read and hold both byte sequences, in the order given
find_main_classes(fs, class_files) ==
    SelectSeq(class_files,
              LAMBDA file : /\ fs[file].exists
                            /\ windows_any(fs[file].data, Str_main)
                            /\ windows_any(fs[file].data, Str_main_descriptor))

create_manifest_content(name) ==
    Str_manifest_version \o Str_created_by
      \o (IF name.some THEN Str_main_class \o name.val \o Str_CRLF ELSE <<>>)
      \o Str_CRLF

JarEntry(name, data) == [name |-> name, data |-> data]

\* the inputs: command lines and file systems
ArgTokens ==
    {Arg_o, Arg_Wl_z, Arg_no_pie, Arg_nodefaultlibs, Path_main_class, Path_lib_class,
     Path_jar}

\* every command line of up to MaxArgs arguments, and command lines of two inputs
ArgLists ==
    LET InputPaths == {Path_main_class, Path_lib_class} IN
    {<<Arg_program>> \o a : a \in SeqUpTo(ArgTokens, MaxArgs)}
      \cup {<<Arg_program, a, c, Arg_o, Path_jar>> : a \in InputPaths, c \in InputPaths}
      \cup {<<Arg_program, Arg_o, Path_jar, a, Arg_Wl_z, c>> :
               a \in InputPaths, c \in InputPaths}

NoFile == [exists |-> FALSE, data |-> <<>>]
File(data) == [exists |-> TRUE, data |-> data]

\* the two class files hold the name "main", the descriptor, both or neither, or are
\* not there
FileSystems ==
    LET DataName == add_utf8_constant(<<>>, 1, Str_main).pool
        DataDescriptor == add_utf8_constant(<<>>, 1, Str_main_descriptor).pool
        DataBoth == DataName \o DataDescriptor
        DataNeither == add_utf8_constant(<<>>, 1, Str_add).pool
    IN
    {[p \in ArgTokens |-> IF p = Path_main_class THEN m
                          ELSE IF p = Path_lib_class THEN l
                          ELSE NoFile] :
        m \in {File(DataBoth), File(DataName), File(DataDescriptor), NoFile},
        l \in {File(DataBoth), File(DataNeither), NoFile}}

InitLinker ==
    /\ pc = "linker_main"
    /\ crate_name = Str_demo
    /\ free_items = <<>>
    /\ Fresh
    /\ type_mapper = TypeMapperIdle
    /\ pool_calls = <<>>
    /\ max_stack_call = MaxStackIdle
    /\ args \in ArgLists
    /\ files \in FileSystems
    /\ LinkerFresh

backend_vars ==
    <<input_vars, item_index, visitor_vars, function_bytecodes, generate_vars, class_file,
      type_mapper, pool_calls, max_stack_call>>

\* main returns Err(1)
ExitErr ==
    /\ pc' = "linker_exit"
    /\ exit_code' = "Err(1)"

\* fewer than three arguments (lines 12-15)
LinkerUsage ==
    /\ pc = "linker_main"
    /\ Len(args) < 3
    /\ ExitErr
    /\ UNCHANGED <<backend_vars, args, files, arg_index, input_files, output_file,
                   main_classes, main_class_name, jar, jar_index>>

\* one turn of the loop over the arguments (lines 21-37); args[i] of the code is
\* args[arg_index + 1] here
LinkerParseArg ==
    /\ pc = "linker_main"
    /\ Len(args) >= 3
    /\ arg_index < Len(args)
    /\ LET arg == args[arg_index + 1] IN
       IF arg = Arg_o
       THEN IF arg_index + 1 < Len(args)
            THEN /\ output_file' = Some(args[arg_index + 2])
                 /\ arg_index' = arg_index + 2
                 /\ UNCHANGED <<pc, exit_code, input_files>>
            ELSE /\ ExitErr
                 /\ UNCHANGED <<output_file, arg_index, input_files>>
       ELSE IF ~starts_with(arg, Arg_Wl_prefix) /\ arg # Arg_no_pie
                 /\ arg # Arg_nodefaultlibs
            THEN /\ input_files' = Append(input_files, arg)
                 /\ arg_index' = arg_index + 1
                 /\ UNCHANGED <<pc, exit_code, output_file>>
            ELSE /\ arg_index' = arg_index + 1
                 /\ UNCHANGED <<pc, exit_code, output_file, input_files>>
    /\ UNCHANGED <<backend_vars, args, files, main_classes, main_class_name, jar, jar_index>>

\* after the loop: no input file, or no output file (lines 39-50)
LinkerArgsInvalid ==
    /\ pc = "linker_main"
    /\ Len(args) >= 3
    /\ arg_index >= Len(args)
    /\ input_files = <<>> \/ ~output_file.some
    /\ ExitErr
    /\ UNCHANGED <<backend_vars, args, files, arg_index, input_files, output_file,
                   main_classes, main_class_name, jar, jar_index>>

\* line 52
FindMainClasses ==
    /\ pc = "linker_main"
    /\ Len(args) >= 3
    /\ arg_index >= Len(args)
    /\ input_files # <<>>
    /\ output_file.some
    /\ main_classes' = find_main_classes(files, input_files)
    /\ pc' = "main_classes_found"
    /\ UNCHANGED <<backend_vars, args, files, arg_index, input_files, output_file,
                   main_class_name, jar, jar_index, exit_code>>

\* lines 54-57
LinkerMultipleMain ==
    /\ pc = "main_classes_found"
    /\ Len(main_classes) > 1
    /\ ExitErr
    /\ UNCHANGED <<backend_vars, args, files, arg_index, input_files, output_file,
                   main_classes, main_class_name, jar, jar_index>>

\* lines 59-77: the main class name, then create_jar is called
LinkerMainClassName ==
    /\ pc = "main_classes_found"
    /\ Len(main_classes) <= 1
    /\ main_class_name' = IF main_classes = <<>> THEN None
                          ELSE Some(main_class_name_of(main_classes[1]))
    /\ pc' = "create_jar"
    /\ UNCHANGED <<backend_vars, args, files, arg_index, input_files, output_file,
                   main_classes, jar, jar_index, exit_code>>

\* File::create on the output path (line 112): the file system may refuse it; when it
\* succeeds the path names an empty file (the bytes of the archive itself are the
\* entries of jar, and a read of that path while it is written gives no bytes here)
CreateJarFile ==
    /\ pc = "create_jar"
    /\ \E created \in BOOLEAN :
         IF created
         THEN /\ jar' = [created |-> TRUE, entries |-> <<>>, finished |-> FALSE]
              /\ files' = [files EXCEPT ![output_file.val] = File(<<>>)]
              /\ pc' = "jar_manifest"
              /\ UNCHANGED exit_code
         ELSE /\ ExitErr
              /\ UNCHANGED <<jar, files>>
    /\ UNCHANGED <<backend_vars, args, arg_index, input_files, output_file, main_classes,
                   main_class_name, jar_index>>

\* lines 119-121; start_file and write_all may return an error, which ends create_jar
JarManifest ==
    /\ pc = "jar_manifest"
    /\ \E written \in BOOLEAN :
         IF written
         THEN /\ jar' = [jar EXCEPT !.entries =
                           Append(@, JarEntry(Str_manifest_path,
                                              create_manifest_content(main_class_name)))]
              /\ jar_index' = 1
              /\ pc' = "jar_entries"
              /\ UNCHANGED exit_code
         ELSE /\ ExitErr
              /\ UNCHANGED <<jar, jar_index>>
    /\ UNCHANGED <<backend_vars, args, files, arg_index, input_files, output_file,
                   main_classes, main_class_name>>

\* one turn of the loop over the input files (lines 126-139): a file that cannot be
\* read, or an error of start_file or write_all, ends create_jar with the error, the
\* archive left as it is
JarClassEntry ==
    /\ pc = "jar_entries"
    /\ jar_index <= Len(input_files)
    /\ LET input_file == input_files[jar_index] IN
       \E written \in BOOLEAN :
         IF files[input_file].exists /\ written
         THEN /\ jar' = [jar EXCEPT !.entries =
                           Append(@, JarEntry(sanitize_file_name(file_name(input_file)),
                                              files[input_file].data))]
              /\ jar_index' = jar_index + 1
              /\ UNCHANGED <<pc, exit_code>>
         ELSE /\ ExitErr
              /\ UNCHANGED <<jar, jar_index>>
    /\ UNCHANGED <<backend_vars, args, files, arg_index, input_files, output_file,
                   main_classes, main_class_name>>

\* zip_writer.finish(), which may return an error; otherwise main returns Ok
\* (lines 141-142, 77-83)
JarFinish ==
    /\ pc = "jar_entries"
    /\ jar_index > Len(input_files)
    /\ \E finished \in BOOLEAN :
         IF finished
         THEN /\ jar' = [jar EXCEPT !.finished = TRUE]
              /\ pc' = "linker_exit"
              /\ exit_code' = "Ok"
         ELSE /\ ExitErr
              /\ UNCHANGED jar
    /\ UNCHANGED <<backend_vars, args, files, arg_index, input_files, output_file,
                   main_classes, main_class_name, jar_index>>

NextLinker ==
    \/ LinkerUsage
    \/ LinkerParseArg
    \/ LinkerArgsInvalid
    \/ FindMainClasses
    \/ LinkerMultipleMain
    \/ LinkerMainClassName
    \/ CreateJarFile
    \/ JarManifest
    \/ JarClassEntry
    \/ JarFinish

SpecLinker == InitLinker /\ [][NextLinker]_vars

(***************************************************************************)
(* Reading a class file back (JVMS 4.1, 4.4, 4.6, 4.7.3), for the          *)
(* properties below.  Positions are 1-based.                               *)
(***************************************************************************)
PoolEntry(tag, a, b, text) == [tag |-> tag, a |-> a, b |-> b, text |-> text]

EntrySize(buffer, p) ==
    IF buffer[p] = TAG_Utf8 THEN 3 + ReadU16(buffer, p + 1)
    ELSE IF buffer[p] = TAG_Class THEN 3
    ELSE 5

EntryAt(buffer, p) ==
    IF buffer[p] = TAG_Utf8
    THEN PoolEntry(TAG_Utf8, 0, 0, SubSeq(buffer, p + 3, p + 2 + ReadU16(buffer, p + 1)))
    ELSE IF buffer[p] = TAG_Class
    THEN PoolEntry(TAG_Class, ReadU16(buffer, p + 1), 0, <<>>)
    ELSE PoolEntry(buffer[p], ReadU16(buffer, p + 1), ReadU16(buffer, p + 3), <<>>)

\* the entries of a pool stored from position p to position last
RECURSIVE ReadEntries(_, _, _)
ReadEntries(buffer, p, last) ==
    IF p > last THEN <<>>
    ELSE <<EntryAt(buffer, p)>> \o ReadEntries(buffer, p + EntrySize(buffer, p), last)

\* the position after k entries stored from position p on
RECURSIVE SkipEntries(_, _, _)
SkipEntries(buffer, p, k) ==
    IF k = 0 \/ p > Len(buffer) THEN p
    ELSE SkipEntries(buffer, p + EntrySize(buffer, p), k - 1)

MethodRecord(buffer, p) ==
    [start |-> p,
     access_flags |-> ReadU16(buffer, p),
     name_index |-> ReadU16(buffer, p + 2),
     descriptor_index |-> ReadU16(buffer, p + 4),
     attributes_count |-> ReadU16(buffer, p + 6),
     attribute_name_index |-> ReadU16(buffer, p + 8),
     attribute_length |-> ReadU32(buffer, p + 10),
     max_stack |-> ReadU16(buffer, p + 14),
     max_locals |-> ReadU16(buffer, p + 16),
     code_length |-> ReadU32(buffer, p + 18),
     code |-> SubSeq(buffer, p + 22, p + 21 + ReadU32(buffer, p + 18)),
     \* the first position after the record: the code, the exception table length and
     \* the attributes count follow code_length
     next |-> p + 22 + ReadU32(buffer, p + 18) + 4]

\* the method records stored from position p on, up to k of them
RECURSIVE ReadMethods(_, _, _)
ReadMethods(buffer, p, k) ==
    IF k = 0 \/ p + 21 > Len(buffer) THEN <<>>
    ELSE LET m == MethodRecord(buffer, p) IN
         <<m>> \o ReadMethods(buffer, m.next, k - 1)

ReadClassFile(buffer) ==
    LET count == ReadU16(buffer, 9)
        q == SkipEntries(buffer, 11, count - 1)
        methods_count == ReadU16(buffer, q + 10)
        methods == ReadMethods(buffer, q + 12, methods_count)
    IN [magic |-> SubSeq(buffer, 1, 4),
        minor_version |-> ReadU16(buffer, 5),
        major_version |-> ReadU16(buffer, 7),
        constant_pool_count |-> count,
        constant_pool |-> ReadEntries(buffer, 11, q - 1),
        access_flags |-> ReadU16(buffer, q),
        this_class |-> ReadU16(buffer, q + 2),
        super_class |-> ReadU16(buffer, q + 4),
        interfaces_count |-> ReadU16(buffer, q + 6),
        fields_count |-> ReadU16(buffer, q + 8),
        methods_count |-> methods_count,
        methods |-> methods,
        \* the position of the class attributes count
        tail |-> IF methods = <<>> THEN q + 12 ELSE methods[Len(methods)].next]

\* generate_class_with_static_methods_bytecode has returned its buffer
Generated == pc \in {"codegen_done", "joined"}

ClassFile == ReadClassFile(bytecode)

\* the function item of a name (names are unique within the crate)
FunctionNamed(function_name) ==
    CHOOSE f \in {free_items[i] : i \in 1..Len(free_items)} :
        f.kind = "Fn" /\ f.name = function_name

(***************************************************************************)
(* Properties.                                                             *)
(***************************************************************************)

\* C1: starting from an empty pool whose count is 1, the k-th add call returns
\* index k, whatever the kind or the arguments of the call (and the count is one
\* more than the number of calls made).
C1_IndicesSequential ==
    pc = "pool" =>
        /\ constant_pool_count = Len(pool_calls) + 1
        /\ \A k \in 1..Len(pool_calls) : pool_calls[k].index = k

C1_Witness ==
    /\ pc = "pool"
    /\ Len(pool_calls) >= 3
    /\ pool_calls[1].op = "fieldref"
    /\ pool_calls[2].op = "utf8"
    /\ pool_calls[3].op = "class"
    /\ pool_calls[3].index = 3

\* C2: in the generated class file every referenced constant-pool index (this-class,
\* super-class, the name of each Class entry, the name and descriptor of each
\* NameAndType entry and of each method record, the Code attribute name) is >= 1,
\* below the serialized constant_pool_count, and designates an entry of the pool as
\* it was serialized, of the expected kind.
C2_ReferencedIndicesInPool ==
    Generated =>
        LET cf == ClassFile
            pool == cf.constant_pool
            IsKind(i, tag) ==
                /\ i >= 1
                /\ i < cf.constant_pool_count
                /\ i <= Len(pool)
                /\ pool[i].tag = tag
        IN /\ cf.constant_pool_count = constant_pool_count
           /\ Len(pool) = cf.constant_pool_count - 1
           /\ SubSeq(bytecode, 11, 10 + Len(constant_pool)) = constant_pool
           /\ pool = ReadEntries(constant_pool, 1, Len(constant_pool))
           /\ IsKind(cf.this_class, TAG_Class)
           /\ IsKind(cf.super_class, TAG_Class)
           /\ \A i \in 1..Len(pool) :
                /\ pool[i].tag = TAG_Class => IsKind(pool[i].a, TAG_Utf8)
                /\ pool[i].tag = TAG_NameAndType =>
                     IsKind(pool[i].a, TAG_Utf8) /\ IsKind(pool[i].b, TAG_Utf8)
           /\ Len(cf.methods) = cf.methods_count
           /\ \A k \in 1..Len(cf.methods) :
                /\ IsKind(cf.methods[k].name_index, TAG_Utf8)
                /\ IsKind(cf.methods[k].descriptor_index, TAG_Utf8)
                /\ IsKind(cf.methods[k].attribute_name_index, TAG_Utf8)

C2_Witness ==
    /\ Generated
    /\ Len(function_bytecodes) = 2
    /\ ClassFile.methods_count = 2
    /\ ClassFile.this_class = 2
    /\ ClassFile.super_class = 4

\* the descriptors of the parameters in order, by the Type Mapper
RECURSIVE ParamDescriptors(_)
ParamDescriptors(inputs) ==
    IF inputs = <<>> THEN <<>>
    ELSE ParamDescriptors(SubSeq(inputs, 1, Len(inputs) - 1))
           \o rust_ty_to_jvm_descriptor(inputs[Len(inputs)]).val

\* C3: the descriptor stored for a function named "main" with zero parameters is
\* ([Ljava/lang/String;)V whatever its return type; for every other function it is
\* "(" + the parameters' descriptors in order + ")" + the return type's descriptor.
C3_MethodDescriptors ==
    Generated =>
        \A k \in 1..Len(function_bytecodes) :
            LET f == FunctionNamed(function_bytecodes[k].key)
                m == ClassFile.methods[k]
                stored == ClassFile.constant_pool[m.descriptor_index].text
            IN /\ ClassFile.constant_pool[m.name_index].text = f.name
               /\ stored =
                    IF f.name = Str_main /\ Len(f.inputs) = 0
                    THEN Str_main_descriptor
                    ELSE <<40>> \o ParamDescriptors(f.inputs) \o <<41>>
                           \o rust_ty_to_jvm_descriptor(f.output).val

C3_Witness ==
    /\ Generated
    /\ \E k \in 1..Len(function_bytecodes) :
         LET f == FunctionNamed(function_bytecodes[k].key) IN
         /\ f.name = Str_main
         /\ f.inputs = <<>>
         /\ f.output = TyI32
         /\ ClassFile.constant_pool[ClassFile.methods[k].descriptor_index].text
              = Str_main_descriptor

\* a function of two 32-bit integer parameters returning a 32-bit integer whose body
\* is one block: a single binary-add assignment, then Return
IsSumFunction(f) ==
    /\ f.kind = "Fn"
    /\ f.inputs = <<TyI32, TyI32>>
    /\ f.output = TyI32
    /\ Len(f.blocks) = 1
    /\ Len(f.blocks[1].statements) = 1
    /\ f.blocks[1].statements[1].kind = "Assign"
    /\ f.blocks[1].statements[1].rvalue = "BinaryOp"
    /\ f.blocks[1].statements[1].bin_op = "Add"
    /\ f.blocks[1].terminator = "Return"

\* C4: for such a function the instructions are exactly iload_0, iload_1, iadd,
\* ireturn, max_stack is 2 and max_locals is 3.
C4_SumFunction ==
    Generated =>
        \A k \in 1..Len(function_bytecodes) :
            IsSumFunction(FunctionNamed(function_bytecodes[k].key)) =>
                /\ function_bytecodes[k].value = <<26, 27, 96, 172>>
                /\ ClassFile.methods[k].code = <<26, 27, 96, 172>>
                /\ ClassFile.methods[k].max_stack = 2
                /\ ClassFile.methods[k].max_locals = 3

C4_Witness ==
    /\ Generated
    /\ Len(function_bytecodes) = 1
    /\ IsSumFunction(free_items[1])
    /\ ClassFile.methods[1].max_stack = 2

\* the method records written so far are those of the first functions, each with
\* attribute_length = the bytes that follow it in the attribute = 12 + code length,
\* and they fill the buffer to its end
MethodLengthsExact ==
    pc \in {"method_definitions", "codegen_done", "joined"} =>
        LET ms == ClassFile.methods
            written == IF pc = "method_definitions" THEN method_index - 1
                       ELSE Len(function_bytecodes)
        IN /\ Len(ms) = written
           /\ ClassFile.tail = (IF Generated THEN Len(bytecode) - 1 ELSE Len(bytecode) + 1)
           /\ \A k \in 1..Len(ms) :
                /\ ms[k].attribute_length = ms[k].next - (ms[k].start + 14)
                /\ ms[k].attribute_length = 12 + Len(function_bytecodes[k].value)
                /\ ms[k].code_length = Len(function_bytecodes[k].value)
                /\ ms[k].code = function_bytecodes[k].value

\* writing a method record leaves every byte written before it as it was
EarlierBytesKept ==
    pc = "method_definitions" =>
        /\ Len(bytecode') >= Len(bytecode)
        /\ SubSeq(bytecode', 1, Len(bytecode)) = bytecode

\* C5: for every method record the Code attribute length equals the number of bytes
\* that follow it in the attribute (12 + code length) and code_length equals the
\* number of instruction bytes of that function, for every method of a crate of
\* several functions; patching a length never alters a byte written before.
C5_CodeAttributeLengths == []MethodLengthsExact /\ [][EarlierBytesKept]_vars

C5_Witness ==
    /\ Generated
    /\ Len(function_bytecodes) = 2
    /\ Len(function_bytecodes[1].value) # Len(function_bytecodes[2].value)
    /\ ClassFile.methods[2].attribute_length = 12 + Len(function_bytecodes[2].value)

\* the visitor is at the terminator of the current block
AtTerminator == pc = "visit_block" /\ statement_index > Len(CurrentBlock.statements)

\* the visitor is at a statement of the current block
AtStatement == pc = "visit_block" /\ statement_index <= Len(CurrentBlock.statements)

IsReferenceDescriptor(d) == Len(d) >= 2 /\ d[1] = 76 /\ d[Len(d)] = 59

\* the return opcode the claim gives a descriptor
ClaimedReturnOpcode(d) ==
    IF d = <<86>> THEN 177
    ELSE IF d \in {<<73>>, <<70>>, <<90>>, <<66>>, <<67>>, <<83>>} THEN 172
    ELSE IF IsReferenceDescriptor(d) THEN 176
    ELSE 177

\* C6: at a Return terminator the translator appends exactly one return opcode,
\* chosen from the Type Mapper descriptor of the declared return type: return for V,
\* ireturn for I, F, Z, B, C, S, areturn for any reference descriptor L...;
\* (Ljava/math/BigInteger; included), return otherwise.
C6_ReturnOpcodeByDescriptor ==
    [][(/\ AtTerminator
        /\ CurrentBlock.terminator = "Return"
        /\ ~rust_ty_to_jvm_descriptor(CurrentItem.output).panic)
         => method_bytecode_instructions' =
              Append(method_bytecode_instructions,
                     ClaimedReturnOpcode(rust_ty_to_jvm_descriptor(CurrentItem.output).val))]_vars

VisitorActive == pc \in {"visit_body", "visit_block"}

IsRawPtrToNonStr(ty) == ty.kind = "RawPtr" /\ ty.inner[1].kind # "Str"

IsRecognizedStatement(statement) ==
    /\ statement.kind = "Assign"
    /\ statement.rvalue = "BinaryOp"
    /\ statement.bin_op \in {"Add", "AddWithOverflow", "Sub", "SubWithOverflow"}

\* C7 as stated: the translator has no error path, the walk of a function never aborts.
C7_NeverAborts == pc # "panic_visit_terminator"

\* the walk aborts only by the Type Mapper's failure on the declared return type, at
\* a Return terminator
AbortOnlyByTypeMapper ==
    pc = "panic_visit_terminator" =>
        /\ CurrentBlock.terminator = "Return"
        /\ IsRawPtrToNonStr(CurrentItem.output)

\* a statement or a terminator of an unrecognized shape emits nothing
UnrecognizedEmitsNothing ==
    /\ (AtStatement /\ ~IsRecognizedStatement(CurrentBlock.statements[statement_index]))
         => method_bytecode_instructions' = method_bytecode_instructions
    /\ (AtTerminator /\ CurrentBlock.terminator # "Return")
         => (method_bytecode_instructions' = method_bytecode_instructions
               /\ pc' # "panic_visit_terminator")

\* while a function is walked, a step of the walk can be taken
WalkNeverStuck ==
    VisitorActive =>
        ENABLED (VisitBasicBlockData \/ VisitStatement \/ VisitTerminator \/ FinishBody)

\* a step inside the walk moves forward in the body: to a later block, or from the
\* block's head into the block, or to a later statement of the block
WalkAdvances ==
    (VisitorActive /\ VisitorActive') =>
        /\ item_index' = item_index
        /\ \/ block' > block
           \/ block' = block /\ pc = "visit_body" /\ pc' = "visit_block"
           \/ block' = block /\ pc = "visit_block" /\ pc' = "visit_block"
                /\ statement_index' > statement_index

\* C7, amended: the walk of a function is never stuck and always moves forward, so it
\* ends, after its last block or by the Type Mapper's failure; it fails only at a
\* Return terminator of a function whose declared return type is a raw pointer to a
\* non-string; unrecognized shapes emit nothing.
C7_AbortsOnlyOnRawPointerReturn ==
    /\ []AbortOnlyByTypeMapper
    /\ []WalkNeverStuck
    /\ [][UnrecognizedEmitsNothing /\ WalkAdvances]_vars

C7_Witness ==
    /\ pc = "codegen_crate"
    /\ item_index = 2
    /\ free_items[1].kind = "Fn"
    /\ free_items[1].blocks[1].statements = <<StmtBinaryOp("Mul", <<"_1", "_2">>)>>
    /\ free_items[1].blocks[1].terminator = "Call"
    /\ function_bytecodes[1].value = <<>>

\* C8: the Type Mapper fails for exactly one shape, a raw pointer whose pointee is not
\* a string slice; for every other type it returns a descriptor; it changes nothing
\* but its result.
C8_TypeMapperFailsOnlyOnRawPointer ==
    (pc = "type_mapper" /\ type_mapper.called) =>
        /\ type_mapper.result.panic <=> IsRawPtrToNonStr(type_mapper.rust_ty)
        /\ ~type_mapper.result.panic => Len(type_mapper.result.val) >= 1
        /\ Fresh
        /\ pool_calls = <<>>

C8_Witness ==
    /\ pc = "type_mapper"
    /\ type_mapper.called
    /\ type_mapper.rust_ty = TyRawPtr(TyI32)
    /\ type_mapper.result.panic

\* the JVM letter of an integer type's width: B, S, I, J; I for the pointer-sized
\* integers and Ljava/math/BigInteger; for the 128-bit ones
WidthDescriptor(w) ==
    IF w \in {"I8", "U8"} THEN <<66>>
    ELSE IF w \in {"I16", "U16"} THEN <<83>>
    ELSE IF w \in {"I32", "U32", "Isize", "Usize"} THEN <<73>>
    ELSE IF w \in {"I64", "U64"} THEN <<74>>
    ELSE Desc_BigInteger

\* C9: the signed and the unsigned integer of a width get the same descriptor, the
\* letter of the width: B, S, I, J for 8, 16, 32, 64 bits; I for isize and usize;
\* Ljava/math/BigInteger; for i128 and u128.
C9_IntegerDescriptors ==
    (pc = "type_mapper" /\ type_mapper.called
       /\ type_mapper.rust_ty.kind \in {"Int", "Uint"}) =>
        type_mapper.result = Ok(WidthDescriptor(type_mapper.rust_ty.arg))

C9_Witness ==
    /\ pc = "type_mapper"
    /\ type_mapper.called
    /\ type_mapper.rust_ty = TyUint("U64")
    /\ type_mapper.result = Ok(<<74>>)

StartsWithMagicAndVersion(file) ==
    /\ Len(file) >= 8
    /\ SubSeq(file, 1, 4) = <<202, 254, 186, 190>>
    /\ SubSeq(file, 5, 8) = <<0, 0, 0, 52>>
    /\ ReadU16(file, 5) = 0
    /\ ReadU16(file, 7) = 52

\* C10: the class file begins with CA FE BA BE, then minor version 0 (00 00) and major
\* version 52 (00 34), for every compilation unit, one with no function included.
C10_MagicAndVersion ==
    /\ Generated => StartsWithMagicAndVersion(bytecode)
    /\ \A i \in 1..Len(class_file) : StartsWithMagicAndVersion(class_file[i])

C10_Witness ==
    /\ pc = "joined"
    /\ function_bytecodes = <<>>
    /\ Len(class_file) = 1
    /\ StartsWithMagicAndVersion(class_file[1])

\* the function items of the crate, in the crate's order
FnItems == SelectSeq(free_items, LAMBDA item : item.kind = "Fn")

\* a fatal error has stopped the backend
Aborted == pc \in {"panic_visit_terminator", "panic_generate", "panic_instance_not_found"}

\* the buffer is a whole class file: every function's method record is in it and the
\* class attributes count closes it
BufferComplete ==
    /\ Len(function_bytecodes) = Len(FnItems)
    /\ ClassFile.methods_count = Len(FnItems)
    /\ Len(ClassFile.methods) = Len(FnItems)
    /\ ClassFile.tail + 1 = Len(bytecode)
    /\ SubSeq(bytecode, ClassFile.tail, Len(bytecode)) = <<0, 0>>

\* a class file exists only after the run has gone through the whole crate and the
\* whole assembly, there is one, and it holds the complete buffer
ClassFileOnlyComplete ==
    /\ Len(class_file) <= 1
    /\ pc = "joined" <=> Len(class_file) = 1
    /\ class_file # <<>> =>
         /\ item_index > Len(free_items)
         /\ BufferComplete
         /\ class_file[1] = bytecode
    /\ Aborted => class_file = <<>>

\* the file changes only by join_codegen writing the finished buffer, and once the
\* buffer is finished nothing but that write is left to do
ClassFileWrittenOnce ==
    /\ class_file' # class_file =>
         /\ pc = "codegen_done"
         /\ class_file = <<>>
         /\ class_file' = <<bytecode>>
         /\ bytecode' = bytecode
    /\ pc = "joined" => UNCHANGED vars

\* a run that is aborted stays aborted: nothing runs after the fatal error
AbortIsFinal == Aborted => ~ENABLED Next

\* C11: the class file is created and written exactly once, only after every function
\* has been translated and the complete buffer assembled; after a fatal error in the
\* translation or the assembly no class file is created or partially written.
C11_ClassFileWrittenOnceAtEnd ==
    /\ []ClassFileOnlyComplete
    /\ []AbortIsFinal
    /\ [](pc = "codegen_done" => ENABLED JoinCodegen)
    /\ [][ClassFileWrittenOnce]_vars

C11_Witness ==
    /\ pc = "joined"
    /\ Len(FnItems) = 2
    /\ class_file = <<bytecode>>
    /\ ClassFile.methods_count = 2

\* a run stopped by the Type Mapper while assembling, with no class file
C11_WitnessAborted ==
    /\ pc = "panic_generate"
    /\ class_file = <<>>

\* the instructions the visitor emits for the blocks of f from block b on, after buffer
RECURSIVE WalkBlocks(_, _, _)
WalkBlocks(f, b, buffer) ==
    IF b > Len(f.blocks) THEN buffer
    ELSE LET RECURSIVE WalkStatements(_, _)
             WalkStatements(i, acc) ==
                 IF i > Len(f.blocks[b].statements) THEN acc
                 ELSE WalkStatements(i + 1, visit_statement(acc, f.blocks[b].statements[i]))
             t == visit_terminator(WalkStatements(1, buffer), f.blocks[b].terminator,
                                   f.output)
         IN WalkBlocks(f, b + 1, t.val)

\* C12: when the functions of the crate have pairwise distinct names, the method table
\* holds exactly one record per function, in the order in which the functions were
\* translated and inserted (the crate's order), methods_count is the number of
\* functions, and the name, the descriptor and the code of the k-th record are those
\* of the k-th function.
C12_MethodTableInFunctionOrder ==
    (Generated /\ DistinctFnNames(free_items)) =>
        /\ ClassFile.methods_count = Len(FnItems)
        /\ Len(ClassFile.methods) = Len(FnItems)
        /\ Len(function_bytecodes) = Len(FnItems)
        /\ \A k \in 1..Len(FnItems) :
             LET f == FnItems[k]
                 m == ClassFile.methods[k]
             IN /\ function_bytecodes[k].key = f.name
                /\ ClassFile.constant_pool[m.name_index].text = f.name
                /\ ClassFile.constant_pool[m.descriptor_index].text
                     = method_descriptor(f.name, f).val
                /\ m.code = WalkBlocks(f, 1, <<>>)
                /\ m.max_locals = Len(f.inputs) + 1
                /\ \A j \in 1..Len(FnItems) :
                     j # k => /\ m.name_index # ClassFile.methods[j].name_index
                              /\ m.descriptor_index # ClassFile.methods[j].descriptor_index

C12_Witness ==
    /\ Generated
    /\ Len(free_items) = 2
    /\ Len(FnItems) = 2
    /\ FnItems[1].name = Str_sub
    /\ FnItems[2].name = Str_add
    /\ ClassFile.methods[1].code = <<26, 27, 100, 26, 27, 96, 177>>
    /\ ClassFile.methods[2].code = <<26, 27, 96, 172>>
    /\ ClassFile.constant_pool[ClassFile.methods[1].name_index].text = Str_sub

\* the bytes hold the pattern somewhere
ContainsBytes(data, pattern) ==
    \E i, j \in 1..Len(data) : SubSeq(data, i, j) = pattern

\* the input files detected as entry-point candidates, in the order given
Candidates ==
    SelectSeq(input_files,
              LAMBDA f : /\ files[f].exists
                         /\ ContainsBytes(files[f].data, Str_main)
                         /\ ContainsBytes(files[f].data, Str_main_descriptor))

\* the arguments were valid: the loop over them is done and left an input and an output
ArgsValid == pc \notin {"linker_main"} /\ input_files # <<>> /\ output_file.some

\* what find_main_classes detected is the candidates; with more than one the archive
\* does not exist and main has returned, or is about to return, the error; an archive
\* exists only when the arguments were valid and at most one candidate was found, and
\* its first entry is the manifest, the others the class files in the order given
LinkerArchiveState ==
    /\ pc \in {"main_classes_found", "create_jar"} => main_classes = Candidates
    /\ Len(main_classes) > 1 =>
         /\ jar = NoJar
         /\ pc \in {"main_classes_found", "linker_exit"}
         /\ pc = "linker_exit" => exit_code = "Err(1)"
         /\ ENABLED LinkerMultipleMain \/ pc = "linker_exit"
    /\ exit_code = "Ok" <=> jar.finished
    /\ pc = "create_jar" => ArgsValid /\ Len(main_classes) <= 1 /\ ENABLED CreateJarFile
    /\ jar.created => ArgsValid /\ Len(main_classes) <= 1
    /\ ~jar.created => jar.entries = <<>>
    /\ \A k \in 1..Len(jar.entries) :
         IF k = 1
         THEN jar.entries[k] = JarEntry(Str_manifest_path,
                                        create_manifest_content(main_class_name))
         ELSE /\ jar.entries[k].name # Str_manifest_path
              /\ jar.entries[k].name = sanitize_file_name(file_name(input_files[k - 1]))

\* with more than one candidate the next step is the failure and touches neither the
\* archive nor a file; with at most one, the next step goes on to create_jar; the
\* archive only grows, by the manifest first
LinkerArchiveSteps ==
    /\ (pc = "main_classes_found" /\ Len(main_classes) > 1) =>
         /\ pc' = "linker_exit"
         /\ exit_code' = "Err(1)"
         /\ UNCHANGED <<jar, files>>
    /\ (pc = "main_classes_found" /\ Len(main_classes) <= 1) => pc' = "create_jar"
    /\ files' # files => pc = "create_jar" /\ jar'.created
    /\ jar' # jar =>
         /\ Len(main_classes) <= 1
         /\ jar'.created
         /\ Len(jar'.entries) >= Len(jar.entries)
         /\ SubSeq(jar'.entries, 1, Len(jar.entries)) = jar.entries
         /\ (jar.entries = <<>> /\ jar'.entries # <<>>) =>
              /\ Len(jar'.entries) = 1
              /\ jar'.entries[1].name = Str_manifest_path

\* C13: in the java-linker, when more than one input class file is detected as an
\* entry-point candidate (its bytes contain both "main" and "([Ljava/lang/String;)V")
\* the run fails with a non-zero result and the archive is never created or written;
\* with at most one candidate and valid arguments the run goes on to create the
\* archive, the manifest entry written before any class-file entry.
C13_MultipleMainFailsBeforeArchive ==
    /\ []LinkerArchiveState
    /\ [][LinkerArchiveSteps]_vars

C13_Witness ==
    /\ pc = "linker_exit"
    /\ exit_code = "Err(1)"
    /\ Len(main_classes) = 2
    /\ main_classes[1] # main_classes[2]
    /\ jar = NoJar

\* an archive of two class files, one of them the entry point
C13_WitnessArchive ==
    /\ pc = "linker_exit"
    /\ exit_code = "Ok"
    /\ Len(main_classes) = 1
    /\ Len(jar.entries) = 3
    /\ main_class_name = Some(<<109>>)
    /\ jar.entries[2].name = <<109>> \o Str_dot_class

\* what the claim has a statement emit
StatementEmission(statement) ==
    IF statement.kind = "Assign" /\ statement.rvalue = "BinaryOp"
         /\ statement.bin_op \in {"Add", "AddWithOverflow"}
    THEN <<26, 27, 96>>
    ELSE IF statement.kind = "Assign" /\ statement.rvalue = "BinaryOp"
              /\ statement.bin_op \in {"Sub", "SubWithOverflow"}
    THEN <<26, 27, 100>>
    ELSE <<>>

\* what the claim has a terminator emit: nothing, but for Return the return opcode
TerminatorEmission(f, terminator) ==
    IF terminator = "Return"
    THEN <<ReturnOpcode(rust_ty_to_jvm_descriptor(f.output).val)>>
    ELSE <<>>

\* the emissions of the first i - 1 statements of block b of f
RECURSIVE StatementsEmission(_, _, _)
StatementsEmission(f, b, i) ==
    IF i <= 1 THEN <<>>
    ELSE StatementsEmission(f, b, i - 1) \o StatementEmission(f.blocks[b].statements[i - 1])

\* the emissions of the blocks of f before block b, each with its terminator
RECURSIVE BlocksEmission(_, _)
BlocksEmission(f, b) ==
    IF b <= 1 THEN <<>>
    ELSE BlocksEmission(f, b - 1)
           \o StatementsEmission(f, b - 1, Len(f.blocks[b - 1].statements) + 1)
           \o TerminatorEmission(f, f.blocks[b - 1].terminator)

\* during the walk the buffer is the emissions of what has been visited, in the
\* declared order, and the stored instructions of a function are those of all its blocks
InstructionsAreConcatenation ==
    /\ pc = "visit_body" => method_bytecode_instructions = BlocksEmission(CurrentItem, block)
    /\ pc = "visit_block" =>
         method_bytecode_instructions =
           BlocksEmission(CurrentItem, block)
             \o StatementsEmission(CurrentItem, block, statement_index)
    /\ pc \notin {"type_mapper", "pool", "max_stack", "linker_main"} =>
         \A k \in 1..Len(function_bytecodes) :
            /\ function_bytecodes[k].key = FnItems[k].name
            /\ function_bytecodes[k].value
                 = BlocksEmission(FnItems[k], Len(FnItems[k].blocks) + 1)

\* a step of the walk only appends to the buffer
EmittedBytesKept ==
    pc \in {"visit_body", "visit_block"} =>
        /\ Len(method_bytecode_instructions') >= Len(method_bytecode_instructions)
        /\ SubSeq(method_bytecode_instructions', 1, Len(method_bytecode_instructions))
             = method_bytecode_instructions

\* C14: the instructions of a function are the concatenation, over its blocks in the
\* declared order, of the emissions of the block's statements in order and then of its
\* terminator; an add (plain or overflow-checking) emits iload_0, iload_1, iadd, a
\* subtract iload_0, iload_1, isub, whatever the operands; every other statement and
\* every terminator but Return emits nothing; emitted bytes are never changed or removed.
C14_InstructionsConcatenatedInOrder ==
    /\ []InstructionsAreConcatenation
    /\ [][EmittedBytesKept]_vars

\* two blocks, the second after a Return, both emitted
C14_Witness ==
    /\ pc = "codegen_crate"
    /\ Len(function_bytecodes) = 1
    /\ Len(free_items[1].blocks) = 2
    /\ free_items[1].blocks[1].terminator = "Return"
    /\ free_items[1].blocks[1].statements = <<StmtBinaryOp("Sub", <<"_1", "_2">>)>>
    /\ function_bytecodes[1].value = <<26, 27, 100, 172, 26, 27, 96, 172>>

\* an add of _2 and a constant still loads slots 0 and 1
C14_WitnessOperands ==
    /\ pc = "codegen_crate"
    /\ Len(function_bytecodes) = 1
    /\ free_items[1].blocks[1].statements
         = <<StmtBinaryOp("AddWithOverflow", <<"_2", "const 1">>)>>
    /\ function_bytecodes[1].value = <<26, 27, 96, 172>>

\* the depth after the first n instructions, simulated from 0: an opcode of 0x03..0x08
\* or 0x1a..0x23 pushes 1, an opcode of Pops takes 1 off, any other leaves the depth,
\* and a depth below zero is reset to zero
RECURSIVE SimulatedDepth(_, _, _)
SimulatedDepth(instructions, n, Pops) ==
    IF n = 0 THEN 0
    ELSE LET opcode == instructions[n]
             before == SimulatedDepth(instructions, n - 1, Pops)
             after == IF opcode \in (3..8) \cup (26..35) THEN before + 1
                      ELSE IF opcode \in Pops THEN before - 1
                      ELSE before
         IN IF after < 0 THEN 0 ELSE after

\* the greatest depth the simulation goes through
RunningMaximum(instructions, Pops) ==
    LET depths == {SimulatedDepth(instructions, n, Pops) : n \in 0..Len(instructions)}
    IN CHOOSE d \in depths : \A e \in depths : e <= d

\* C15 as stated: the result is the running maximum of the simulated depth where
\* iadd, isub and any return instruction (return, ireturn and areturn alike) take 1
\* off the depth.
C15_AnyReturnPops ==
    (pc = "max_stack" /\ max_stack_call.called) =>
        max_stack_call.result = RunningMaximum(max_stack_call.instructions,
                                               {96, 100, 172, 176, 177})

\* C15, amended: the result is the running maximum of the simulated depth where iadd,
\* isub, ireturn and areturn take 1 off the depth and the void return (0xb1) leaves it,
\* like every other opcode; the result is never negative.
C15_MaxStackIsRunningMaximum ==
    (pc = "max_stack" /\ max_stack_call.called) =>
        /\ max_stack_call.result = RunningMaximum(max_stack_call.instructions,
                                                  {96, 100, 172, 176})
        /\ max_stack_call.result >= 0

\* a void return between loads: the depth goes on from 1, to 3
C15_Witness ==
    /\ pc = "max_stack"
    /\ max_stack_call.called
    /\ max_stack_call.instructions = <<26, 177, 26, 26>>
    /\ max_stack_call.result = 3

\* the pool entry an add call is to leave
EntryOfCall(call) ==
    CASE call.op = "utf8" -> PoolEntry(1, 0, 0, call.text)
      [] call.op = "class" -> PoolEntry(7, call.a, 0, <<>>)
      [] call.op = "name_and_type" -> PoolEntry(12, call.a, call.b, <<>>)
      [] call.op = "fieldref" -> PoolEntry(9, call.a, call.b, <<>>)
      [] call.op = "methodref" -> PoolEntry(10, call.a, call.b, <<>>)

PoolEntries == ReadEntries(constant_pool, 1, Len(constant_pool))

\* the pool holds one entry per call made, in call order, equal texts included
OneEntryPerCall ==
    pc = "pool" =>
        /\ Len(PoolEntries) = Len(pool_calls)
        /\ \A k \in 1..Len(pool_calls) : PoolEntries[k] = EntryOfCall(pool_calls[k])
        /\ \A i, j \in 1..Len(pool_calls) :
             (i < j /\ pool_calls[i].op = "utf8" /\ pool_calls[j].op = "utf8"
                /\ pool_calls[i].text = pool_calls[j].text) =>
                 /\ pool_calls[i].index # pool_calls[j].index
                 /\ PoolEntries[pool_calls[i].index].text = pool_calls[i].text
                 /\ PoolEntries[pool_calls[j].index].text = pool_calls[i].text

\* a call leaves the bytes of the earlier entries as they were and adds one entry
PoolOnlyAppended ==
    pc = "pool" =>
        /\ Len(constant_pool') > Len(constant_pool)
        /\ SubSeq(constant_pool', 1, Len(constant_pool)) = constant_pool
        /\ Len(ReadEntries(constant_pool', 1, Len(constant_pool'))) = Len(PoolEntries) + 1

\* C16: the constant pool is append-only and never deduplicates: after any sequence of
\* add calls it holds exactly one entry per call, in call order, the bytes of earlier
\* entries unchanged by later calls, and two add_utf8 calls with the same text leave
\* two entries with two distinct indices.
C16_PoolAppendOnly ==
    /\ []OneEntryPerCall
    /\ [][PoolOnlyAppended]_vars

C16_Witness ==
    /\ pc = "pool"
    /\ Len(pool_calls) = 3
    /\ pool_calls[1].op = "utf8"
    /\ pool_calls[2].op = "utf8"
    /\ pool_calls[1].text = pool_calls[2].text
    /\ pool_calls[1].index = 1
    /\ pool_calls[2].index = 2
    /\ pool_calls[3].op = "name_and_type"
    /\ Len(PoolEntries) = 3

\* the descriptor stored for the k-th method
MethodDescriptorText(k) ==
    ClassFile.constant_pool[ClassFile.methods[k].descriptor_index].text

\* the k-th method is declared void and its code holds ireturn or areturn
VoidMethodReturnsValue(k) ==
    /\ MethodDescriptorText(k)[Len(MethodDescriptorText(k))] = 86
    /\ \E i \in 1..Len(ClassFile.methods[k].code) :
         ClassFile.methods[k].code[i] \in {172, 176}

\* C17: in every emitted method the return opcode agrees with the return type of the
\* method descriptor: a method whose descriptor ends in V holds only the void return
\* (0xb1) as return opcode, never ireturn or areturn, a zero-parameter function named
\* "main" of any declared return type included.
C17_ReturnOpcodeAgreesWithDescriptor ==
    Generated => \A k \in 1..Len(ClassFile.methods) : ~VoidMethodReturnsValue(k)

\* the same for every function but a zero-parameter "main"
C17_HoldsButForMain ==
    Generated =>
        \A k \in 1..Len(ClassFile.methods) :
            VoidMethodReturnsValue(k) =>
                /\ function_bytecodes[k].key = Str_main
                /\ FunctionNamed(Str_main).inputs = <<>>
                /\ rust_ty_to_jvm_descriptor(FunctionNamed(Str_main).output).val # Desc_V

\* the highest local slot the code reads (iload_0 reads slot 0, iload_1 slot 1), -1 when
\* it reads none
HighestSlotRead(code) ==
    IF \E i \in 1..Len(code) : code[i] = 27 THEN 1
    ELSE IF \E i \in 1..Len(code) : code[i] = 26 THEN 0
    ELSE -1

\* C18: for every emitted method max_locals (parameter count + 1) is strictly greater
\* than the highest local slot its instructions read: whenever the code holds iload_1
\* max_locals is at least 2, for every parameter count, zero included.
C18_MaxLocalsCoversSlotsRead ==
    Generated =>
        \A k \in 1..Len(ClassFile.methods) :
            /\ ClassFile.methods[k].max_locals
                 = Len(FunctionNamed(function_bytecodes[k].key).inputs) + 1
            /\ ClassFile.methods[k].max_locals > HighestSlotRead(ClassFile.methods[k].code)

\* the same for every function but one of zero parameters
C18_HoldsButForNoParameters ==
    Generated =>
        \A k \in 1..Len(ClassFile.methods) :
            /\ ClassFile.methods[k].max_locals
                 = Len(FunctionNamed(function_bytecodes[k].key).inputs) + 1
            /\ ClassFile.methods[k].max_locals <= HighestSlotRead(ClassFile.methods[k].code)
                 => FunctionNamed(function_bytecodes[k].key).inputs = <<>>

=============================================================================
